---- MODULE Spec2Model ----
(***************************************************************************)
(* Model of the Binance futures testnet trading bot:                       *)
(*   bot.py    BasicBot  (validator and exchange client adapter)           *)
(*   main.py   the interactive menu session                                *)
(*   config.py the configuration constants                                 *)
(*                                                                         *)
(* Python strings are sequences of one-character strings, so that          *)
(* str.upper, str.lower and str.strip are computed and not assumed.        *)
(* Decimal numbers are integers counting units of 0.0001.                  *)
(***************************************************************************)
EXTENDS Integers, Sequences, FiniteSets, TLC

VARIABLES
    pc,              \* control position (adapter caller, or main.py session)
    last,            \* record of the adapter operation executed last
    exchangeOrders,  \* orders live on the exchange
    nextOrderId,     \* next order id the exchange hands out
    creds,           \* config.API_KEY / config.API_SECRET
    exitStatus,      \* process exit status, "running" before exit
    inp,             \* values the current menu handler has collected
    confirmed,       \* answer given at the confirmation prompt of this operation
    lastRead,        \* the prompt read last and what the user entered there
    report           \* what the session printed about the current operation

cliVars == <<creds, exitStatus, inp, confirmed, lastRead, report>>

vars == <<pc, last, exchangeOrders, nextOrderId, creds, exitStatus, inp,
          confirmed, lastRead, report>>

-----------------------------------------------------------------------------
(* Bounds *)

MaxOrders == 2      \* orders the exchange accepts before the model stops placing
MaxDelta == 1       \* quantities are taken within MaxDelta units of each limit

-----------------------------------------------------------------------------
(* Python values *)

\* a value carries its type; v of a number counts units of 0.0001
None == [t |-> "NoneType", v |-> 0, nan |-> FALSE]
Num(n) == [t |-> "float", v |-> n, nan |-> FALSE]
PyInt(n) == [t |-> "int", v |-> n * 10000, nan |-> FALSE]
Str(s) == [t |-> "str", v |-> s, nan |-> FALSE]
NaN == [t |-> "float", v |-> 0, nan |-> TRUE]
NotANumber == [t |-> "Decimal", v |-> 0, nan |-> FALSE]

\* isinstance(x, (int, float))
IsIntOrFloat(x) == x.t \in {"int", "float"}

\* Python comparison of a float with a number: every comparison with nan is False
PyLE(x, n) == IF x.nan THEN FALSE ELSE x.v <= n
PyLT(x, n) == IF x.nan THEN FALSE ELSE x.v < n
PyGT(x, n) == IF x.nan THEN FALSE ELSE x.v > n

-----------------------------------------------------------------------------
(* Python strings *)

LowerChars == <<"a","b","c","d","e","f","g","h","i","j","k","l","m",
                "n","o","p","q","r","s","t","u","v","w","x","y","z">>
UpperChars == <<"A","B","C","D","E","F","G","H","I","J","K","L","M",
                "N","O","P","Q","R","S","T","U","V","W","X","Y","Z">>

UpperChar(c) ==
    IF \E i \in 1..Len(LowerChars) : LowerChars[i] = c
    THEN UpperChars[CHOOSE i \in 1..Len(LowerChars) : LowerChars[i] = c]
    ELSE c

LowerChar(c) ==
    IF \E i \in 1..Len(UpperChars) : UpperChars[i] = c
    THEN LowerChars[CHOOSE i \in 1..Len(UpperChars) : UpperChars[i] = c]
    ELSE c

\* str.upper() / str.lower()
upper(s) == [i \in 1..Len(s) |-> UpperChar(s[i])]
lower(s) == [i \in 1..Len(s) |-> LowerChar(s[i])]

\* x in list
InList(x, l) == \E i \in 1..Len(l) : l[i] = x

IsSpace(c) == c \in {" ", "\t", "\n"}

\* str.strip()
RECURSIVE strip(_)
strip(s) ==
    IF s # <<>> /\ IsSpace(s[1]) THEN strip(Tail(s))
    ELSE IF s # <<>> /\ IsSpace(s[Len(s)]) THEN strip(SubSeq(s, 1, Len(s) - 1))
    ELSE s

Digits == <<"0","1","2","3","4","5","6","7","8","9">>
IsDigit(c) == InList(c, Digits)
DigitVal(c) == (CHOOSE i \in 1..Len(Digits) : Digits[i] = c) - 1
AllDigits(s) == \A i \in 1..Len(s) : IsDigit(s[i])

RECURSIVE DigitsVal(_)
DigitsVal(s) ==
    IF s = <<>> THEN 0
    ELSE DigitsVal(SubSeq(s, 1, Len(s) - 1)) * 10 + DigitVal(s[Len(s)])

RECURSIVE Pow10(_)
Pow10(k) == IF k = 0 THEN 1 ELSE 10 * Pow10(k - 1)

Unsigned(t) == IF t # <<>> /\ t[1] \in {"-", "+"} THEN Tail(t) ELSE t
Signed(t, n) == IF t # <<>> /\ t[1] = "-" THEN 0 - n ELSE n
DotsOf(u) == {i \in 1..Len(u) : u[i] = "."}

\* float(s) for decimal literals ([sign] digits [. digits], at most four
\* fractional digits) and nan; anything else is a ValueError.  The result
\* counts units of 0.0001.
float(s) ==
    LET t == strip(s)
        u == Unsigned(t)
        k == CHOOSE i \in DotsOf(u) : TRUE
        ip == SubSeq(u, 1, k - 1)
        fp == SubSeq(u, k + 1, Len(u))
    IN  IF lower(u) = <<"n","a","n">> THEN [ok |-> TRUE, val |-> NaN]
        ELSE IF DotsOf(u) = {}
        THEN IF u # <<>> /\ AllDigits(u)
             THEN [ok |-> TRUE, val |-> Num(Signed(t, DigitsVal(u) * 10000))]
             ELSE [ok |-> FALSE, val |-> None]
        ELSE IF Cardinality(DotsOf(u)) = 1 /\ AllDigits(ip) /\ AllDigits(fp)
                /\ Len(ip) + Len(fp) > 0 /\ Len(fp) <= 4
        THEN [ok |-> TRUE,
              val |-> Num(Signed(t, DigitsVal(ip) * 10000
                                    + DigitsVal(fp) * Pow10(4 - Len(fp))))]
        ELSE [ok |-> FALSE, val |-> None]

\* int(s) for decimal literals; anything else is a ValueError
int(s) ==
    LET t == strip(s)
        u == Unsigned(t)
    IN  IF u # <<>> /\ AllDigits(u)
        THEN [ok |-> TRUE, val |-> Signed(t, DigitsVal(u))]
        ELSE [ok |-> FALSE, val |-> 0]

\* x + y on floats: nan is absorbing
PyAdd(x, y) == IF x.nan \/ y.nan THEN NaN ELSE Num(x.v + y.v)

-----------------------------------------------------------------------------
(* config.py *)

sBUY == <<"B","U","Y">>
sSELL == <<"S","E","L","L">>
sMARKET == <<"M","A","R","K","E","T">>
sLIMIT == <<"L","I","M","I","T">>
sSTOP_LIMIT == <<"S","T","O","P","_","L","I","M","I","T">>
sSTOP_MARKET == <<"S","T","O","P","_","M","A","R","K","E","T">>
sTAKE_PROFIT == <<"T","A","K","E"," ","P","R","O","F","I","T">>
sGTC == <<"G","T","C">>
sCONTRACT_PRICE == <<"C","O","N","T","R","A","C","T","_","P","R","I","C","E">>

ORDER_TYPES == <<sMARKET, sLIMIT, sSTOP_LIMIT, sSTOP_MARKET>>
ORDER_SIDES == <<sBUY, sSELL>>

\* in units of 0.0001: 0.001 and 100.0
MIN_QUANTITY == 10
MAX_QUANTITY == 1000000

sPlaceholderKey == <<"y","o","u","r","_","a","p","i","_","k","e","y","_","h","e","r","e">>
sPlaceholderSecret == <<"y","o","u","r","_","a","p","i","_","s","e","c","r","e","t","_","h","e","r","e">>
sBTCUSDT == <<"B","T","C","U","S","D","T">>
DEFAULT_SYMBOL == sBTCUSDT

-----------------------------------------------------------------------------
(* bot.py: BasicBot.validate_order_params *)

MsgInvalidSide == "Invalid side. Must be one of: ORDER_SIDES"
MsgInvalidType == "Invalid order type. Must be one of: ORDER_TYPES"
MsgNotPositive == "Quantity must be a positive number"
MsgOutOfRange == "Quantity must be between MIN_QUANTITY and MAX_QUANTITY"
MsgNeedPrice == "orders require a price"
MsgNeedStop == "orders require a stop_price"
MsgValid == "Valid"

\* the quantity checks moved in front of the side and type checks
validate_QuantityFirst(symbol, side, order_type, quantity, price, stop_price) ==
    IF ~IsIntOrFloat(quantity) \/ PyLE(quantity, 0)
    THEN <<FALSE, MsgNotPositive>>
    ELSE IF PyLT(quantity, MIN_QUANTITY) \/ PyGT(quantity, MAX_QUANTITY)
    THEN <<FALSE, MsgOutOfRange>>
    ELSE IF ~InList(upper(side), ORDER_SIDES)
    THEN <<FALSE, MsgInvalidSide>>
    ELSE IF ~InList(upper(order_type), ORDER_TYPES)
    THEN <<FALSE, MsgInvalidType>>
    ELSE IF InList(upper(order_type), <<sLIMIT, sSTOP_LIMIT>>) /\ price = None
    THEN <<FALSE, MsgNeedPrice>>
    ELSE IF InList(upper(order_type), <<sSTOP_LIMIT, sSTOP_MARKET>>) /\ stop_price = None
    THEN <<FALSE, MsgNeedStop>>
    ELSE <<TRUE, MsgValid>>

\* the stop price required for STOP_LIMIT only
validate_StopMarketUnchecked(symbol, side, order_type, quantity, price, stop_price) ==
    IF ~InList(upper(side), ORDER_SIDES)
    THEN <<FALSE, MsgInvalidSide>>
    ELSE IF ~InList(upper(order_type), ORDER_TYPES)
    THEN <<FALSE, MsgInvalidType>>
    ELSE IF ~IsIntOrFloat(quantity) \/ PyLE(quantity, 0)
    THEN <<FALSE, MsgNotPositive>>
    ELSE IF PyLT(quantity, MIN_QUANTITY) \/ PyGT(quantity, MAX_QUANTITY)
    THEN <<FALSE, MsgOutOfRange>>
    ELSE IF InList(upper(order_type), <<sLIMIT, sSTOP_LIMIT>>) /\ price = None
    THEN <<FALSE, MsgNeedPrice>>
    ELSE IF InList(upper(order_type), <<sSTOP_LIMIT>>) /\ stop_price = None
    THEN <<FALSE, MsgNeedStop>>
    ELSE <<TRUE, MsgValid>>

validate_order_params(symbol, side, order_type, quantity, price, stop_price) ==
    IF ~InList(upper(side), ORDER_SIDES)
    THEN <<FALSE, MsgInvalidSide>>
    ELSE IF ~InList(upper(order_type), ORDER_TYPES)
    THEN <<FALSE, MsgInvalidType>>
    ELSE IF ~IsIntOrFloat(quantity) \/ PyLE(quantity, 0)
    THEN <<FALSE, MsgNotPositive>>
    ELSE IF PyLT(quantity, MIN_QUANTITY) \/ PyGT(quantity, MAX_QUANTITY)
    THEN <<FALSE, MsgOutOfRange>>
    ELSE IF InList(upper(order_type), <<sLIMIT, sSTOP_LIMIT>>) /\ price = None
    THEN <<FALSE, MsgNeedPrice>>
    ELSE IF InList(upper(order_type), <<sSTOP_LIMIT, sSTOP_MARKET>>) /\ stop_price = None
    THEN <<FALSE, MsgNeedStop>>
    ELSE <<TRUE, MsgValid>>

-----------------------------------------------------------------------------
(* The exchange client (binance.client.Client): the collaborator behind    *)
(* self.client.  Every call either succeeds or raises; which of the two    *)
(* is the environment's choice.                                            *)

\* what a client call can do: return, or raise one of
\*   BinanceOrderException   the exchange rejects the order
\*   BinanceAPIException     API error
\*   ConnectionError         network failure (requests.exceptions)
\*   RuntimeError            any other unexpected error
Failures == {"BinanceOrderException", "BinanceAPIException",
             "ConnectionError", "RuntimeError"}
Outcomes == {"ok"} \cup Failures

\* isinstance(exc, cls) for the classes named in except clauses
IsInstance(exc, cls) == cls = "Exception" \/ exc = cls

\* the first except clause of a try statement that matches, if any
Caught(exc, handlers) == \E i \in 1..Len(handlers) : IsInstance(exc, handlers[i])

Exchange(orders, nextId) == [orders |-> orders, nextId |-> nextId]

\* response of futures_create_order for accepted parameters
OrderResponse(ex, params) ==
    [orderId |-> ex.nextId, symbol |-> params.symbol, side |-> params.side,
     type |-> params.type,
     status |-> IF params.type = sMARKET THEN "FILLED" ELSE "NEW"]

\* client.futures_create_order(**params): an accepted order gets the next
\* order id; a market order fills at once, any other order rests
futures_create_order(ex, params, outcome) ==
    IF outcome = "ok"
    THEN [ex |-> Exchange(IF params.type = sMARKET THEN ex.orders
                          ELSE ex.orders \cup {OrderResponse(ex, params)},
                          ex.nextId + 1),
          resp |-> OrderResponse(ex, params)]
    ELSE [ex |-> ex, resp |-> None]

\* client.futures_cancel_order(symbol=, orderId=)
futures_cancel_order(ex, symbol, orderId, outcome) ==
    IF outcome = "ok"
    THEN [ex |-> Exchange({o \in ex.orders : o.orderId # orderId}, ex.nextId),
          resp |-> [orderId |-> orderId, symbol |-> symbol, status |-> "CANCELED"]]
    ELSE [ex |-> ex, resp |-> None]

\* one entry of the log of client calls an operation has issued
Call(fn, params, outcome) == [fn |-> fn, params |-> params, outcome |-> outcome]

\* what an adapter operation leaves behind: the client calls it issued, the
\* value it returned (or the exception it raised) and the exchange state
Returned(calls, ret, ex) == [calls |-> calls, ret |-> ret, raised |-> "none", ex |-> ex]
Raised(calls, exc, ex) == [calls |-> calls, ret |-> None, raised |-> exc, ex |-> ex]

Dict(d) == [t |-> "dict", v |-> d]
Tuple(s) == [t |-> "tuple", v |-> s]
List(s) == [t |-> "list", v |-> s]

\* the three except clauses of the place_* operations, and the single one of
\* get_account_balance, get_open_orders and cancel_order
PlaceHandlers == <<"BinanceOrderException", "BinanceAPIException", "Exception">>
QueryHandlers == <<"BinanceAPIException">>

-----------------------------------------------------------------------------
(* bot.py: the adapter operations *)

\* the order sent although the validator rejected it
place_market_order_NoEarlyReturn(ex, symbol, side, quantity, o1) ==
    LET params == [symbol |-> upper(symbol), side |-> upper(side),
                   type |-> sMARKET, quantity |-> quantity, reduce_only |-> TRUE]
        r == futures_create_order(ex, params, o1)
        calls == <<Call("futures_create_order", params, o1)>>
    IN  IF o1 = "ok" THEN Returned(calls, Dict(r.resp), r.ex)
        ELSE IF Caught(o1, PlaceHandlers) THEN Returned(calls, None, r.ex)
        ELSE Raised(calls, o1, r.ex)

place_market_order(ex, symbol, side, quantity, o1) ==
    LET v == validate_order_params(symbol, side, sMARKET, quantity, None, None)
        params == [symbol |-> upper(symbol), side |-> upper(side),
                   type |-> sMARKET, quantity |-> quantity, reduce_only |-> TRUE]
        r == futures_create_order(ex, params, o1)
        calls == <<Call("futures_create_order", params, o1)>>
    IN  IF ~v[1] THEN Returned(<<>>, None, ex)
        ELSE IF o1 = "ok" THEN Returned(calls, Dict(r.resp), r.ex)
        ELSE IF Caught(o1, PlaceHandlers) THEN Returned(calls, None, r.ex)
        ELSE Raised(calls, o1, r.ex)

place_limit_order(ex, symbol, side, quantity, price, o1) ==
    LET v == validate_order_params(symbol, side, sLIMIT, quantity, price, None)
        params == [symbol |-> upper(symbol), side |-> upper(side),
                   type |-> sLIMIT, timeInForce |-> sGTC,
                   quantity |-> quantity, price |-> price]
        r == futures_create_order(ex, params, o1)
        calls == <<Call("futures_create_order", params, o1)>>
    IN  IF ~v[1] THEN Returned(<<>>, None, ex)
        ELSE IF o1 = "ok" THEN Returned(calls, Dict(r.resp), r.ex)
        ELSE IF Caught(o1, PlaceHandlers) THEN Returned(calls, None, r.ex)
        ELSE Raised(calls, o1, r.ex)

\* the second leg placed on the requested side instead of the opposite one
place_stop_limit_order_SameSide(ex, symbol, side, quantity, price, stop_price, o1, o2) ==
    LET v == validate_order_params(symbol, side, sSTOP_LIMIT, quantity, price, stop_price)
        p1 == [symbol |-> upper(symbol), side |-> upper(side),
               type |-> sLIMIT, timeInForce |-> sGTC,
               quantity |-> quantity, price |-> price,
               workingType |-> sCONTRACT_PRICE]
        r1 == futures_create_order(ex, p1, o1)
        p2 == [symbol |-> upper(symbol), side |-> upper(side),
               type |-> sTAKE_PROFIT, timeInForce |-> sGTC,
               quantity |-> quantity, price |-> price,
               stopPrice |-> stop_price, workingType |-> sCONTRACT_PRICE]
        r2 == futures_create_order(r1.ex, p2, o2)
        c1 == Call("futures_create_order", p1, o1)
        c2 == Call("futures_create_order", p2, o2)
    IN  IF ~v[1] THEN Returned(<<>>, None, ex)
        ELSE IF o1 # "ok"
        THEN IF Caught(o1, PlaceHandlers) THEN Returned(<<c1>>, None, r1.ex)
             ELSE Raised(<<c1>>, o1, r1.ex)
        ELSE IF o2 # "ok"
        THEN IF Caught(o2, PlaceHandlers) THEN Returned(<<c1, c2>>, None, r2.ex)
             ELSE Raised(<<c1, c2>>, o2, r2.ex)
        ELSE Returned(<<c1, c2>>, Tuple(<<r1.resp, r2.resp>>), r2.ex)

\* the first leg cancelled again when the second leg fails
place_stop_limit_order_Compensating(ex, symbol, side, quantity, price, stop_price, o1, o2) ==
    LET v == validate_order_params(symbol, side, sSTOP_LIMIT, quantity, price, stop_price)
        oside == IF upper(side) = sBUY THEN sSELL ELSE sBUY
        p1 == [symbol |-> upper(symbol), side |-> upper(side),
               type |-> sLIMIT, timeInForce |-> sGTC,
               quantity |-> quantity, price |-> price,
               workingType |-> sCONTRACT_PRICE]
        r1 == futures_create_order(ex, p1, o1)
        p2 == [symbol |-> upper(symbol), side |-> oside,
               type |-> sTAKE_PROFIT, timeInForce |-> sGTC,
               quantity |-> quantity, price |-> price,
               stopPrice |-> stop_price, workingType |-> sCONTRACT_PRICE]
        r2 == futures_create_order(r1.ex, p2, o2)
        c1 == Call("futures_create_order", p1, o1)
        c2 == Call("futures_create_order", p2, o2)
        p3 == [symbol |-> upper(symbol), orderId |-> r1.resp.orderId]
        r3 == futures_cancel_order(r2.ex, p3.symbol, p3.orderId, "ok")
        c3 == Call("futures_cancel_order", p3, "ok")
    IN  IF ~v[1] THEN Returned(<<>>, None, ex)
        ELSE IF o1 # "ok"
        THEN IF Caught(o1, PlaceHandlers) THEN Returned(<<c1>>, None, r1.ex)
             ELSE Raised(<<c1>>, o1, r1.ex)
        ELSE IF o2 # "ok"
        THEN IF Caught(o2, PlaceHandlers) THEN Returned(<<c1, c2, c3>>, None, r3.ex)
             ELSE Raised(<<c1, c2>>, o2, r2.ex)
        ELSE Returned(<<c1, c2>>, Tuple(<<r1.resp, r2.resp>>), r2.ex)

place_stop_limit_order(ex, symbol, side, quantity, price, stop_price, o1, o2) ==
    LET v == validate_order_params(symbol, side, sSTOP_LIMIT, quantity, price, stop_price)
        oside == IF upper(side) = sBUY THEN sSELL ELSE sBUY
        p1 == [symbol |-> upper(symbol), side |-> upper(side),
               type |-> sLIMIT, timeInForce |-> sGTC,
               quantity |-> quantity, price |-> price,
               workingType |-> sCONTRACT_PRICE]
        r1 == futures_create_order(ex, p1, o1)
        p2 == [symbol |-> upper(symbol), side |-> oside,
               type |-> sTAKE_PROFIT, timeInForce |-> sGTC,
               quantity |-> quantity, price |-> price,
               stopPrice |-> stop_price, workingType |-> sCONTRACT_PRICE]
        r2 == futures_create_order(r1.ex, p2, o2)
        c1 == Call("futures_create_order", p1, o1)
        c2 == Call("futures_create_order", p2, o2)
    IN  IF ~v[1] THEN Returned(<<>>, None, ex)
        ELSE IF o1 # "ok"
        THEN IF Caught(o1, PlaceHandlers) THEN Returned(<<c1>>, None, r1.ex)
             ELSE Raised(<<c1>>, o1, r1.ex)
        ELSE IF o2 # "ok"
        THEN IF Caught(o2, PlaceHandlers) THEN Returned(<<c1, c2>>, None, r2.ex)
             ELSE Raised(<<c1, c2>>, o2, r2.ex)
        ELSE Returned(<<c1, c2>>, Tuple(<<r1.resp, r2.resp>>), r2.ex)

sUSDT == <<"U","S","D","T">>

\* the last USDT entry taken instead of the first
FirstUSDT_Last(balances) ==
    LET hits == {i \in 1..Len(balances) : balances[i].asset = sUSDT}
    IN  IF hits = {} THEN None
        ELSE Dict(balances[CHOOSE i \in hits : \A j \in hits : i >= j])

\* next((b for b in balances if b['asset'] == 'USDT'), None)
FirstUSDT(balances) ==
    LET hits == {i \in 1..Len(balances) : balances[i].asset = sUSDT}
    IN  IF hits = {} THEN None
        ELSE Dict(balances[CHOOSE i \in hits : \A j \in hits : i <= j])

get_account_balance(ex, account, o1) ==
    LET calls == <<Call("futures_account", <<>>, o1)>>
        balances == IF "assets" \in DOMAIN account THEN account.assets ELSE <<>>
        usdt_balance == FirstUSDT(balances)
        avail == float(usdt_balance.v.availableBalance)
        unreal == float(usdt_balance.v.unrealizedProfit)
    IN  IF o1 # "ok"
        THEN IF Caught(o1, QueryHandlers) THEN Returned(calls, None, ex)
             ELSE Raised(calls, o1, ex)
        ELSE IF usdt_balance # None
        THEN IF avail.ok /\ unreal.ok
             THEN Returned(calls,
                           Dict([total_balance |-> PyAdd(avail.val, unreal.val),
                                 available_balance |-> avail.val]), ex)
             ELSE Raised(calls, "ValueError", ex)
        ELSE Returned(calls, Dict([total_balance |-> Num(0),
                                   available_balance |-> Num(0)]), ex)

\* the open orders in the order the exchange lists them (by order id)
RECURSIVE OrderList(_)
OrderList(S) ==
    IF S = {} THEN <<>>
    ELSE LET o == CHOOSE x \in S : \A y \in S : x.orderId <= y.orderId
         IN  <<o>> \o OrderList(S \ {o})

\* client.futures_get_open_orders(symbol=...) / client.futures_get_open_orders()
futures_get_open_orders(ex, params) ==
    IF "symbol" \in DOMAIN params
    THEN OrderList({o \in ex.orders : o.symbol = params.symbol})
    ELSE OrderList(ex.orders)

\* truth value of a str or None
Truthy(x) == x # None /\ x.v # <<>>

get_open_orders(ex, symbol, o1) ==
    LET params == IF Truthy(symbol) THEN [symbol |-> upper(symbol.v)] ELSE <<>>
        calls == <<Call("futures_get_open_orders", params, o1)>>
    IN  IF o1 = "ok" THEN Returned(calls, List(futures_get_open_orders(ex, params)), ex)
        ELSE IF Caught(o1, QueryHandlers) THEN Returned(calls, List(<<>>), ex)
        ELSE Raised(calls, o1, ex)

cancel_order(ex, symbol, order_id, o1) ==
    LET params == [symbol |-> upper(symbol), orderId |-> order_id]
        r == futures_cancel_order(ex, params.symbol, params.orderId, o1)
        calls == <<Call("futures_cancel_order", params, o1)>>
    IN  IF o1 = "ok" THEN Returned(calls, Dict(r.resp), r.ex)
        ELSE IF Caught(o1, QueryHandlers) THEN Returned(calls, None, r.ex)
        ELSE Raised(calls, o1, r.ex)

-----------------------------------------------------------------------------
(* Callers of the adapter: any caller, any arguments *)

s_btcusdt == <<"b","t","c","u","s","d","t">>
sETHUSDT == <<"E","T","H","U","S","D","T">>
Symbols == {s_btcusdt, sETHUSDT}

Sides == {sBUY, <<"b","u","y">>, <<"S","e","l","l">>, <<"H","O","L","D">>}

OrderTypes == {sMARKET, <<"l","i","m","i","t">>, sSTOP_LIMIT,
               <<"s","t","o","p","_","m","a","r","k","e","t">>, <<"O","C","O">>}

\* quantities around zero and around both limits, an int, nan and a non-number
Quantities ==
    {Num(a + d) : a \in {0, MIN_QUANTITY, MAX_QUANTITY}, d \in (0 - MaxDelta)..MaxDelta}
    \cup {PyInt(1), NaN, NotANumber, None}

Prices == {None, Num(0), Num(250000)}
StopPrices == {None, Num(240000)}

\* account responses of futures_account()
Asset(a, avail, unreal) == [asset |-> a, availableBalance |-> avail, unrealizedProfit |-> unreal]
Accounts ==
    { [totalWalletBalance |-> <<"0">>],
      [assets |-> <<>>],
      [assets |-> <<Asset(<<"B","N","B">>, <<"7">>, <<"0">>)>>],
      [assets |-> <<Asset(<<"B","N","B">>, <<"7">>, <<"0">>),
                    Asset(sUSDT, <<"1","2",".","5">>, <<"-","2",".","2","5">>),
                    Asset(sUSDT, <<"9">>, <<"9">>)>>],
      [assets |-> <<Asset(sUSDT, <<"0",".","5">>, <<"-","1">>),
                    Asset(<<"B","N","B">>, <<"7">>, <<"3">>)>>] }

NoCall == [op |-> "none", args |-> <<>>, valid |-> <<TRUE, MsgValid>>,
           calls |-> <<>>, ret |-> None, raised |-> "none", before |-> {}]

\* the record of one adapter operation: its arguments, what the validator
\* said, and what the operation left behind
Done(op, args, valid, r) ==
    [op |-> op, args |-> args, valid |-> valid, calls |-> r.calls,
     ret |-> r.ret, raised |-> r.raised, before |-> exchangeOrders]

Ex == Exchange(exchangeOrders, nextOrderId)

NotValidated == <<TRUE, "not validated">>

Finish(op, args, valid, r) ==
    /\ last' = Done(op, args, valid, r)
    /\ exchangeOrders' = r.ex.orders
    /\ nextOrderId' = r.ex.nextId
    /\ pc' = "done"
    /\ UNCHANGED cliVars

ValidateOrderParams ==
    /\ pc = "idle"
    /\ \E symbol \in Symbols, side \in Sides, order_type \in OrderTypes,
          quantity \in Quantities, price \in Prices, stop_price \in StopPrices :
         LET v == validate_order_params(symbol, side, order_type, quantity, price, stop_price)
         IN  Finish("validate_order_params",
                    [symbol |-> symbol, side |-> side, order_type |-> order_type,
                     quantity |-> quantity, price |-> price, stop_price |-> stop_price],
                    v, Returned(<<>>, Tuple(v), Ex))

PlaceMarketOrder ==
    /\ pc = "idle"
    /\ nextOrderId <= MaxOrders
    /\ \E symbol \in Symbols, side \in Sides, quantity \in Quantities, o1 \in Outcomes :
         Finish("place_market_order",
                [symbol |-> symbol, side |-> side, quantity |-> quantity],
                validate_order_params(symbol, side, sMARKET, quantity, None, None),
                place_market_order(Ex, symbol, side, quantity, o1))

PlaceLimitOrder ==
    /\ pc = "idle"
    /\ nextOrderId <= MaxOrders
    /\ \E symbol \in Symbols, side \in Sides, quantity \in Quantities,
          price \in Prices, o1 \in Outcomes :
         Finish("place_limit_order",
                [symbol |-> symbol, side |-> side, quantity |-> quantity, price |-> price],
                validate_order_params(symbol, side, sLIMIT, quantity, price, None),
                place_limit_order(Ex, symbol, side, quantity, price, o1))

PlaceStopLimitOrder ==
    /\ pc = "idle"
    /\ nextOrderId + 1 <= MaxOrders
    /\ \E symbol \in Symbols, side \in Sides, quantity \in Quantities,
          price \in Prices, stop_price \in StopPrices, o1 \in Outcomes, o2 \in Outcomes :
         Finish("place_stop_limit_order",
                [symbol |-> symbol, side |-> side, quantity |-> quantity,
                 price |-> price, stop_price |-> stop_price],
                validate_order_params(symbol, side, sSTOP_LIMIT, quantity, price, stop_price),
                place_stop_limit_order(Ex, symbol, side, quantity, price, stop_price, o1, o2))

GetAccountBalance ==
    /\ pc = "idle"
    /\ \E account \in Accounts, o1 \in Outcomes :
         Finish("get_account_balance", [account |-> account], NotValidated,
                get_account_balance(Ex, account, o1))

GetOpenOrders ==
    /\ pc = "idle"
    /\ \E symbol \in {None, Str(<<>>)} \cup {Str(x) : x \in Symbols}, o1 \in Outcomes :
         Finish("get_open_orders", [symbol |-> symbol], NotValidated,
                get_open_orders(Ex, symbol, o1))

\* the exchange cancels only an order that is open under that symbol
CanCancel(symbol, order_id) ==
    \E o \in exchangeOrders : o.orderId = order_id /\ o.symbol = upper(symbol)

CancelOrder ==
    /\ pc = "idle"
    /\ \E symbol \in Symbols, order_id \in 1..MaxOrders, o1 \in Outcomes :
         /\ o1 = "ok" => CanCancel(symbol, order_id)
         /\ Finish("cancel_order", [symbol |-> symbol, order_id |-> order_id],
                   NotValidated, cancel_order(Ex, symbol, order_id, o1))

\* the caller takes the result and is free to call again
CallerReturns ==
    /\ pc = "done"
    /\ pc' = "idle"
    /\ last' = NoCall
    /\ UNCHANGED <<exchangeOrders, nextOrderId>>
    /\ UNCHANGED cliVars

NotAsked == [t |-> "unset", v |-> 0, nan |-> FALSE]
NothingRead == [at |-> "none", ev |-> [k |-> "none"]]

NoInput == [symbol |-> None, side |-> None, quantity |-> None,
            price |-> None, stop_price |-> None, order_id |-> None]

Init ==
    /\ pc = "idle"
    /\ last = NoCall
    /\ exchangeOrders = {}
    /\ nextOrderId = 1
    /\ creds = [API_KEY |-> Str(<<"k">>), API_SECRET |-> Str(<<"s">>)]
    /\ exitStatus = "running"
    /\ inp = NoInput
    /\ confirmed = NotAsked
    /\ lastRead = NothingRead
    /\ report = <<>>

Next ==
    \/ ValidateOrderParams
    \/ PlaceMarketOrder
    \/ PlaceLimitOrder
    \/ PlaceStopLimitOrder
    \/ GetAccountBalance
    \/ GetOpenOrders
    \/ CancelOrder
    \/ CallerReturns

Spec == Init /\ [][Next]_vars

-----------------------------------------------------------------------------
(* main.py: the interactive session *)

\* what input(prompt) can deliver: a typed line, Ctrl-C, or end of input
Line(s) == [k |-> "line", s |-> s]
Interrupt == [k |-> "interrupt", s |-> <<>>]
EndOfInput == [k |-> "eof", s |-> <<>>]

sCancel == <<"c","a","n","c","e","l">>
sYes == <<"y","e","s">>
sNo == <<"n","o">>
YesNoOptions == <<sYes, sNo, <<"y">>, <<"n">>>>
SideOptions == <<sBUY, sSELL, <<"b","u","y">>, <<"s","e","l","l">>>>
MenuOptions == <<<<"1">>, <<"2">>, <<"3">>, <<"4">>, <<"5">>, <<"6">>, <<"7">>>>

Value(v) == [kind |-> "value", val |-> v]
Again == [kind |-> "again", val |-> None]
ReturnsNone == [kind |-> "None", val |-> None]
EOFError == [kind |-> "EOFError", val |-> None]

\* one pass of the loop of get_user_input: the value returned, None, another
\* pass of the loop (again), or the EOFError that input() lets through
get_user_input(ev, input_type, valid_options) ==
    LET user_input == strip(ev.s)
        f == float(user_input)
        n == int(user_input)
    IN  IF ev.k = "interrupt" THEN ReturnsNone
        ELSE IF ev.k = "eof" THEN EOFError
        ELSE IF lower(user_input) = sCancel THEN ReturnsNone
        ELSE IF input_type = "float"
        THEN IF f.ok THEN Value(f.val) ELSE Again
        ELSE IF input_type = "int"
        THEN IF n.ok THEN Value(n.val) ELSE Again
        ELSE IF valid_options # <<>> /\ ~InList(user_input, valid_options)
        THEN Again
        ELSE Value(Str(user_input))

\* confirm and confirm.lower() in ['yes', 'y']
IsAffirmative_AnyAnswer(confirm) == Truthy(confirm)

IsAffirmative(confirm) ==
    Truthy(confirm) /\ InList(lower(confirm.v), <<sYes, <<"y">>>>)

\* truth value of what an adapter operation returned
ResultTruthy(ret) ==
    IF ret.t \in {"list", "tuple"} THEN ret.v # <<>> ELSE ret # None

\* what the user may enter at each kind of prompt
CancelEvents == {Line(sCancel), Line(<<" ","C","a","n","c","e","l"," ">>), Interrupt, EndOfInput}
MenuEvents == CancelEvents \cup {Line(<<>>), Line(<<"8">>)}
                           \cup {Line(MenuOptions[i]) : i \in 1..Len(MenuOptions)}
SymbolEvents == CancelEvents \cup {Line(<<>>), Line(s_btcusdt)}
SideEvents == CancelEvents \cup {Line(<<"b","u","y">>), Line(sSELL), Line(<<"h","o","l","d">>)}
QuantityEvents == CancelEvents \cup {Line(<<"0",".","5">>), Line(<<"n","a","n">>),
                                     Line(<<"a","b","c">>)}
PriceEvents == CancelEvents \cup {Line(<<"2","5">>), Line(<<"x">>)}
ConfirmEvents == CancelEvents \cup {Line(sYes), Line(<<"y">>), Line(sNo), Line(<<"n">>),
                                    Line(<<"Y","E","S">>), Line(<<>>)}
OrderIdEvents == CancelEvents \cup {Line(<<"1">>), Line(<<"2">>), Line(<<"1",".","5">>)}

\* what a client call does during a session: it returns, the exchange answers
\* with an API error, or the network fails
SessionOutcomes == {"ok", "BinanceAPIException", "ConnectionError"}

\* the exchange of the model accepts MaxOrders orders and rejects the rest
CanAccept(n) == nextOrderId + n - 1 <= MaxOrders

\* the handler returns, or an exception it lets through is caught by the
\* except Exception clause of the main loop: either way the menu is next
BackToMenu(printed) ==
    /\ pc' = "menu"
    /\ inp' = NoInput
    /\ report' = printed

\* BasicBot.__init__ with _test_connection: the exception it raises, if any
BasicBot_init(o_client, o_account) ==
    IF o_client # "ok" THEN o_client
    ELSE IF o_account # "ok" THEN o_account
    ELSE "none"

\* the credential check of main()
IsPlaceholder(c) ==
    c.API_KEY = Str(sPlaceholderKey) \/ c.API_SECRET = Str(sPlaceholderSecret)

Exit(status) ==
    /\ pc' = "exited"
    /\ exitStatus' = status

\* main() up to the main loop
Startup ==
    /\ pc = "start"
    /\ UNCHANGED <<exchangeOrders, nextOrderId, creds, inp, confirmed, lastRead>>
    /\ IF IsPlaceholder(creds)
       THEN /\ Exit("1")
            /\ report' = <<"ERROR: Please update your API credentials">>
            /\ UNCHANGED last
       ELSE \E o_client \in SessionOutcomes, o_account \in SessionOutcomes :
              LET exc == BasicBot_init(o_client, o_account)
                  calls == IF o_client = "ok"
                           THEN <<Call("futures_account", <<>>, o_account)>> ELSE <<>>
              IN  /\ last' = [NoCall EXCEPT !.op = "__init__", !.calls = calls,
                                            !.raised = exc, !.valid = NotValidated]
                  /\ IF exc = "none"
                     THEN /\ pc' = "menu"
                          /\ report' = <<"Bot initialized successfully!">>
                          /\ UNCHANGED exitStatus
                     ELSE /\ Exit("1")
                          /\ report' = <<"Failed to initialize bot">>

Read(ev) == lastRead' = [at |-> pc, ev |-> ev]

\* the menu prompt of the main loop and the dispatch on the choice
MenuTargets == <<"market_symbol", "limit_symbol", "stop_symbol", "balance",
                 "orders_symbol", "cancel_symbol">>

ReadMenuChoice ==
    /\ pc = "menu"
    /\ \E ev \in MenuEvents :
         LET r == get_user_input(ev, "str", MenuOptions)
             choice == r.val
         IN  /\ Read(ev)
             /\ UNCHANGED <<exchangeOrders, nextOrderId, creds>>
             /\ IF r.kind = "again"
                THEN UNCHANGED <<pc, last, inp, confirmed, report, exitStatus>>
                ELSE IF r.kind = "EOFError"
                THEN /\ BackToMenu(<<"Error: EOFError">>)
                     /\ UNCHANGED <<last, confirmed, exitStatus>>
                ELSE IF r.kind = "None" \/ choice = Str(<<"7">>)
                THEN /\ Exit("0")
                     /\ report' = <<"Exiting bot. Goodbye!">>
                     /\ UNCHANGED <<last, inp, confirmed>>
                ELSE /\ pc' = MenuTargets[CHOOSE i \in 1..6 : MenuOptions[i] = choice.v]
                     /\ last' = NoCall
                     /\ confirmed' = NotAsked
                     /\ inp' = NoInput
                     /\ report' = <<>>
                     /\ UNCHANGED exitStatus

\* a prompt of a handler that stores the value and goes on to the next prompt;
\* dflt replaces an empty answer (symbol = DEFAULT_SYMBOL), when there is one
PromptStep(loc, events, input_type, options, field, dflt, nextloc) ==
    /\ pc = loc
    /\ \E ev \in events :
         LET r == get_user_input(ev, input_type, options)
         IN  /\ Read(ev)
             /\ UNCHANGED <<last, exchangeOrders, nextOrderId, creds, exitStatus, confirmed>>
             /\ IF r.kind = "again" THEN UNCHANGED <<pc, inp, report>>
                ELSE IF r.kind = "EOFError" THEN BackToMenu(<<"Error: EOFError">>)
                ELSE IF r.kind = "None" THEN BackToMenu(report)
                ELSE /\ pc' = nextloc
                     /\ inp' = [inp EXCEPT ![field] =
                                   IF dflt # None /\ r.val = Str(<<>>) THEN dflt ELSE r.val]
                     /\ UNCHANGED report

\* what a place-order handler prints for the result of the adapter
PlaceReport(res) ==
    IF res.raised # "none" THEN <<"Error: " \o res.raised>>
    ELSE IF ~ResultTruthy(res.ret) THEN <<"Order failed. Check logs for details.">>
    ELSE IF res.ret.t = "dict"
    THEN <<"Order placed successfully!", "Order ID", "Status">>
    ELSE <<"Order placed successfully!", "Error: AttributeError">>

CancelReport(res) ==
    IF res.raised # "none" THEN <<"Error: " \o res.raised>>
    ELSE IF ResultTruthy(res.ret) THEN <<"Order cancelled successfully!">>
    ELSE <<"Failed to cancel order. Check logs for details.">>

\* the confirmation prompt of a handler and what follows it: the adapter
\* operation when the answer is affirmative, nothing otherwise
ConfirmStep(loc, events, op, args, valid, res, printed, declined) ==
    /\ pc = loc
    /\ \E ev \in events :
         LET r == get_user_input(ev, "str", YesNoOptions)
             confirm == r.val
         IN  /\ Read(ev)
             /\ UNCHANGED <<creds, exitStatus>>
             /\ IF r.kind = "again"
                THEN UNCHANGED <<pc, inp, report, last, exchangeOrders, nextOrderId, confirmed>>
                ELSE IF r.kind = "EOFError"
                THEN /\ BackToMenu(<<"Error: EOFError">>)
                     /\ UNCHANGED <<last, exchangeOrders, nextOrderId, confirmed>>
                ELSE /\ confirmed' = confirm
                     /\ IF IsAffirmative(confirm)
                        THEN /\ last' = Done(op, args, valid, res)
                             /\ exchangeOrders' = res.ex.orders
                             /\ nextOrderId' = res.ex.nextId
                             /\ BackToMenu(printed)
                        ELSE /\ BackToMenu(<<declined>>)
                             /\ UNCHANGED <<last, exchangeOrders, nextOrderId>>

(* handle_market_order *)
MarketSymbol == PromptStep("market_symbol", SymbolEvents, "str", <<>>, "symbol",
                           Str(DEFAULT_SYMBOL), "market_side")
MarketSide == PromptStep("market_side", SideEvents, "str", SideOptions, "side",
                         None, "market_quantity")
MarketQuantity == PromptStep("market_quantity", QuantityEvents, "float", <<>>, "quantity",
                             None, "market_confirm")
MarketConfirm ==
    \E o1 \in SessionOutcomes :
      /\ pc = "market_confirm"
      /\ o1 = "ok" => CanAccept(1)
      /\ LET res == place_market_order(Ex, inp.symbol.v, inp.side.v, inp.quantity, o1)
         IN  ConfirmStep("market_confirm", ConfirmEvents, "place_market_order",
                  [symbol |-> inp.symbol.v, side |-> inp.side.v, quantity |-> inp.quantity],
                  validate_order_params(inp.symbol.v, inp.side.v, sMARKET, inp.quantity, None, None),
                  res, PlaceReport(res), "Order cancelled.")

(* handle_limit_order *)
LimitSymbol == PromptStep("limit_symbol", SymbolEvents, "str", <<>>, "symbol",
                          Str(DEFAULT_SYMBOL), "limit_side")
LimitSide == PromptStep("limit_side", SideEvents, "str", SideOptions, "side",
                        None, "limit_quantity")
LimitQuantity == PromptStep("limit_quantity", QuantityEvents, "float", <<>>, "quantity",
                            None, "limit_price")
LimitPrice == PromptStep("limit_price", PriceEvents, "float", <<>>, "price",
                         None, "limit_confirm")
LimitConfirm ==
    \E o1 \in SessionOutcomes :
      /\ pc = "limit_confirm"
      /\ o1 = "ok" => CanAccept(1)
      /\ LET res == place_limit_order(Ex, inp.symbol.v, inp.side.v, inp.quantity, inp.price, o1)
         IN  ConfirmStep("limit_confirm", ConfirmEvents, "place_limit_order",
                  [symbol |-> inp.symbol.v, side |-> inp.side.v, quantity |-> inp.quantity,
                   price |-> inp.price],
                  validate_order_params(inp.symbol.v, inp.side.v, sLIMIT, inp.quantity,
                                        inp.price, None),
                  res, PlaceReport(res), "Order cancelled.")

(* handle_stop_limit_order *)
StopSymbol == PromptStep("stop_symbol", SymbolEvents, "str", <<>>, "symbol",
                         Str(DEFAULT_SYMBOL), "stop_side")
StopSide == PromptStep("stop_side", SideEvents, "str", SideOptions, "side",
                       None, "stop_quantity")
StopQuantity == PromptStep("stop_quantity", QuantityEvents, "float", <<>>, "quantity",
                           None, "stop_stop_price")
StopStopPrice == PromptStep("stop_stop_price", PriceEvents, "float", <<>>, "stop_price",
                            None, "stop_price")
StopPrice == PromptStep("stop_price", PriceEvents, "float", <<>>, "price",
                        None, "stop_confirm")
StopConfirm ==
    \E o1 \in SessionOutcomes, o2 \in SessionOutcomes :
      /\ pc = "stop_confirm"
      /\ o1 = "ok" => CanAccept(1)
      /\ (o1 = "ok" /\ o2 = "ok") => CanAccept(2)
      /\ LET res == place_stop_limit_order(Ex, inp.symbol.v, inp.side.v, inp.quantity,
                                           inp.price, inp.stop_price, o1, o2)
         IN  ConfirmStep("stop_confirm", ConfirmEvents, "place_stop_limit_order",
                  [symbol |-> inp.symbol.v, side |-> inp.side.v, quantity |-> inp.quantity,
                   price |-> inp.price, stop_price |-> inp.stop_price],
                  validate_order_params(inp.symbol.v, inp.side.v, sSTOP_LIMIT, inp.quantity,
                                        inp.price, inp.stop_price),
                  res, PlaceReport(res), "Order cancelled.")

(* handle_view_balance *)
HandleViewBalance ==
    /\ pc = "balance"
    /\ \E account \in Accounts, o1 \in SessionOutcomes :
         LET res == get_account_balance(Ex, account, o1)
         IN  /\ last' = Done("get_account_balance", [account |-> account], NotValidated, res)
             /\ BackToMenu(IF res.raised # "none" THEN <<"Error: " \o res.raised>>
                           ELSE IF res.ret # None THEN <<"Total Balance", "Available Balance">>
                           ELSE <<"Failed to retrieve balance.">>)
             /\ UNCHANGED <<exchangeOrders, nextOrderId, creds, exitStatus, confirmed, lastRead>>

(* handle_view_orders *)
HandleViewOrders ==
    /\ pc = "orders_symbol"
    /\ \E ev \in SymbolEvents, o1 \in SessionOutcomes :
         LET r == get_user_input(ev, "str", <<>>)
             symbol == r.val
             arg == IF Truthy(symbol) THEN symbol ELSE None
             res == get_open_orders(Ex, arg, o1)
         IN  /\ Read(ev)
             /\ UNCHANGED <<exchangeOrders, nextOrderId, creds, exitStatus, confirmed>>
             /\ IF r.kind = "EOFError"
                THEN /\ BackToMenu(<<"Error: EOFError">>)
                     /\ UNCHANGED last
                ELSE /\ last' = Done("get_open_orders", [symbol |-> arg], NotValidated, res)
                     /\ BackToMenu(IF res.raised # "none" THEN <<"Error: " \o res.raised>>
                                   ELSE IF ~ResultTruthy(res.ret) THEN <<"No open orders.">>
                                   ELSE <<"Found open order(s)">>)

(* handle_cancel_order *)
CancelSymbol == PromptStep("cancel_symbol", SymbolEvents, "str", <<>>, "symbol",
                           None, "cancel_order_id")
CancelOrderId == PromptStep("cancel_order_id", OrderIdEvents, "int", <<>>, "order_id",
                            None, "cancel_confirm")
CancelConfirm ==
    \E o1 \in SessionOutcomes :
      /\ pc = "cancel_confirm"
      /\ o1 = "ok" => CanCancel(inp.symbol.v, inp.order_id)
      /\ LET res == cancel_order(Ex, inp.symbol.v, inp.order_id, o1)
         IN  ConfirmStep("cancel_confirm", ConfirmEvents, "cancel_order",
                  [symbol |-> inp.symbol.v, order_id |-> inp.order_id],
                  NotValidated, res, CancelReport(res), "Cancellation aborted.")

\* config.py: os.getenv gives None for a variable that is not set
Credentials ==
    { [API_KEY |-> Str(<<"k">>), API_SECRET |-> Str(<<"s">>)],
      [API_KEY |-> Str(sPlaceholderKey), API_SECRET |-> Str(<<"s">>)],
      [API_KEY |-> Str(<<"k">>), API_SECRET |-> Str(sPlaceholderSecret)],
      [API_KEY |-> None, API_SECRET |-> None] }

InitCLI ==
    /\ pc = "start"
    /\ last = NoCall
    /\ exchangeOrders = {}
    /\ nextOrderId = 1
    /\ creds \in Credentials
    /\ exitStatus = "running"
    /\ inp = NoInput
    /\ confirmed = NotAsked
    /\ lastRead = NothingRead
    /\ report = <<>>

NextCLI ==
    \/ Startup
    \/ ReadMenuChoice
    \/ MarketSymbol
    \/ MarketSide
    \/ MarketQuantity
    \/ MarketConfirm
    \/ LimitSymbol
    \/ LimitSide
    \/ LimitQuantity
    \/ LimitPrice
    \/ LimitConfirm
    \/ StopSymbol
    \/ StopSide
    \/ StopQuantity
    \/ StopStopPrice
    \/ StopPrice
    \/ StopConfirm
    \/ HandleViewBalance
    \/ HandleViewOrders
    \/ CancelSymbol
    \/ CancelOrderId
    \/ CancelConfirm

SpecCLI == InitCLI /\ [][NextCLI]_vars

-----------------------------------------------------------------------------
(* Properties of the adapter *)

PlaceOps == {"place_market_order", "place_limit_order", "place_stop_limit_order"}
AdapterOps == PlaceOps \cup {"get_account_balance", "get_open_orders", "cancel_order"}

SomeCallFailed == \E i \in 1..Len(last.calls) : last.calls[i].outcome # "ok"

\* C1: when validate_order_params rejects the arguments of place_market_order,
\* place_limit_order or place_stop_limit_order, the operation returns None and
\* has issued no call to the exchange client; the exchange is as it was.
C1_RejectedMeansNoCall ==
    (last.op \in PlaceOps /\ ~last.valid[1]) =>
        /\ last.ret = None
        /\ last.raised = "none"
        /\ last.calls = <<>>
        /\ exchangeOrders = last.before

C1_Witness ==
    /\ last.op = "place_market_order"
    /\ ~last.valid[1]
    /\ last.ret = None

\* C2: whenever the exchange call of an adapter operation fails (order
\* rejection, API error, network failure, any other error), the operation
\* returns None ([] for get_open_orders) and raises nothing.
C2_NoFailurePropagates ==
    (last.op \in AdapterOps /\ SomeCallFailed) =>
        /\ last.raised = "none"
        /\ last.ret = IF last.op = "get_open_orders" THEN List(<<>>) ELSE None

Inverse(side) == IF side = sBUY THEN sSELL ELSE IF side = sSELL THEN sBUY ELSE side

\* C3: place_stop_limit_order with valid arguments first issues a create-order
\* call with the requested side and type LIMIT; it issues a second call exactly
\* when the first succeeded, with the inverted side, the take-profit type and
\* stopPrice = the requested stop price; when the second call fails the result
\* is None.
C3_TwoLegsInOrder ==
    (last.op = "place_stop_limit_order" /\ last.valid[1]) =>
        /\ Len(last.calls) \in {1, 2}
        /\ \A i \in 1..Len(last.calls) : last.calls[i].fn = "futures_create_order"
        /\ last.calls[1].params.side = upper(last.args.side)
        /\ last.calls[1].params.side \in {sBUY, sSELL}
        /\ last.calls[1].params.type = sLIMIT
        /\ (Len(last.calls) = 2) = (last.calls[1].outcome = "ok")
        /\ Len(last.calls) = 2 =>
              /\ last.calls[2].params.side = Inverse(last.calls[1].params.side)
              /\ last.calls[2].params.side # last.calls[1].params.side
              /\ last.calls[2].params.type = sTAKE_PROFIT
              /\ last.calls[2].params.stopPrice = last.args.stop_price
              /\ last.calls[2].outcome # "ok" => last.ret = None

C3_Witness ==
    /\ last.op = "place_stop_limit_order"
    /\ last.valid[1]
    /\ Len(last.calls) = 2
    /\ last.calls[1].outcome = "ok"
    /\ last.calls[2].outcome # "ok"
    /\ last.calls[2].params.side = sBUY
    /\ last.ret = None

SecondLegFailed ==
    /\ last.op = "place_stop_limit_order"
    /\ Len(last.calls) >= 2
    /\ last.calls[1].outcome = "ok"
    /\ last.calls[2].outcome # "ok"

\* C4: an adapter operation issues no exchange call after one of its calls has
\* failed (no retry); when the second leg of place_stop_limit_order fails, no
\* cancel call is issued and the first leg is still live on the exchange when
\* the operation returns.
C4_NoCallAfterFailure ==
    /\ last.op \in AdapterOps =>
          \A i \in 1..Len(last.calls) : last.calls[i].outcome # "ok" => i = Len(last.calls)
    /\ SecondLegFailed =>
          /\ \A i \in 1..Len(last.calls) : last.calls[i].fn # "futures_cancel_order"
          /\ \E o \in exchangeOrders \ last.before :
                /\ o.type = sLIMIT
                /\ o.side = upper(last.args.side)
                /\ o.symbol = upper(last.args.symbol)

C4_Witness ==
    /\ SecondLegFailed
    /\ last.ret = None
    /\ last.raised = "none"
    /\ exchangeOrders # last.before

-----------------------------------------------------------------------------
(* Properties of the validator *)

\* comparison of two strings that ignores letter case
SameIgnoringCase(a, b) ==
    /\ Len(a) = Len(b)
    /\ \A i \in 1..Len(a) : a[i] = b[i] \/ UpperChar(a[i]) = b[i] \/ a[i] = UpperChar(b[i])

IsOneOf(x, S) == \E y \in S : SameIgnoringCase(x, y)

\* the five rules, each on its own
SideRuleBroken(a) == ~IsOneOf(a.side, {sBUY, sSELL})
TypeRuleBroken(a) == ~IsOneOf(a.order_type, {sMARKET, sLIMIT, sSTOP_LIMIT, sSTOP_MARKET})
\* the quantity check as the validator evaluates it: a comparison with nan is false
QuantityCheckFails(a) ==
    \/ a.quantity.t \notin {"int", "float"}
    \/ (~a.quantity.nan /\ (a.quantity.v <= 0 \/ a.quantity.v < MIN_QUANTITY
                                               \/ a.quantity.v > MAX_QUANTITY))
PriceRuleBroken(a) == IsOneOf(a.order_type, {sLIMIT, sSTOP_LIMIT}) /\ a.price = None
StopRuleBroken(a) == IsOneOf(a.order_type, {sSTOP_LIMIT, sSTOP_MARKET}) /\ a.stop_price = None

FirstFailure(a) ==
    IF SideRuleBroken(a) THEN "side"
    ELSE IF TypeRuleBroken(a) THEN "type"
    ELSE IF QuantityCheckFails(a) THEN "quantity"
    ELSE IF PriceRuleBroken(a) THEN "price"
    ELSE IF StopRuleBroken(a) THEN "stopPrice"
    ELSE "none"

ReasonOf(msg) ==
    IF msg = MsgInvalidSide THEN "side"
    ELSE IF msg = MsgInvalidType THEN "type"
    ELSE IF msg \in {MsgNotPositive, MsgOutOfRange} THEN "quantity"
    ELSE IF msg = MsgNeedPrice THEN "price"
    ELSE IF msg = MsgNeedStop THEN "stopPrice"
    ELSE "none"

Validated == last.op = "validate_order_params"

QuantityInRange(q) ==
    /\ q.t \in {"int", "float"}
    /\ ~q.nan
    /\ q.v > 0
    /\ q.v >= MIN_QUANTITY
    /\ q.v <= MAX_QUANTITY

\* C6: with a valid side and type, validate_order_params fails with an
\* invalid-quantity reason if and only if the quantity is not a number, is
\* <= 0, is < MIN_QUANTITY or is > MAX_QUANTITY; both bounds are accepted.
C6_QuantityRule ==
    (Validated /\ ~SideRuleBroken(last.args) /\ ~TypeRuleBroken(last.args)) =>
        (ReasonOf(last.valid[2]) = "quantity") = ~QuantityInRange(last.args.quantity)

\* C7: every request validate_order_params accepts has side BUY or SELL and a
\* type among MARKET, LIMIT, STOP_LIMIT, STOP_MARKET (letter case ignored), a
\* price when the type is LIMIT or STOP_LIMIT and a stop price when the type is
\* STOP_LIMIT or STOP_MARKET; a request with valid side, type and quantity is
\* rejected only when a required price or stop price is absent.
C7_AcceptedSatisfiesInvariant ==
    Validated =>
        /\ last.valid[1] =>
              /\ IsOneOf(last.args.side, {sBUY, sSELL})
              /\ IsOneOf(last.args.order_type, {sMARKET, sLIMIT, sSTOP_LIMIT, sSTOP_MARKET})
              /\ IsOneOf(last.args.order_type, {sLIMIT, sSTOP_LIMIT}) => last.args.price # None
              /\ IsOneOf(last.args.order_type, {sSTOP_LIMIT, sSTOP_MARKET})
                    => last.args.stop_price # None
        /\ (/\ ~SideRuleBroken(last.args)
            /\ ~TypeRuleBroken(last.args)
            /\ QuantityInRange(last.args.quantity)
            /\ ~last.valid[1])
              => PriceRuleBroken(last.args) \/ StopRuleBroken(last.args)

C7_Witness ==
    /\ Validated
    /\ last.valid[1]
    /\ last.args.side = <<"b","u","y">>
    /\ last.args.order_type = <<"s","t","o","p","_","m","a","r","k","e","t">>
    /\ last.args.stop_price # None

-----------------------------------------------------------------------------
(* Properties of the session *)

Affirmative == {Str(sYes), Str(<<"y">>)}

ConfirmPrompts == {"market_confirm", "limit_confirm", "stop_confirm", "cancel_confirm"}

\* the confirmation prompt was read last and the answer was no, n or 'cancel',
\* or the prompt was interrupted
Declined ==
    /\ lastRead.at \in ConfirmPrompts
    /\ \/ lastRead.ev.k = "interrupt"
       \/ /\ lastRead.ev.k = "line"
          /\ \/ lastRead.ev.s \in {sNo, <<"n">>}
             \/ lower(strip(lastRead.ev.s)) = sCancel

\* C8: in a session, an adapter operation that has issued a create-order or
\* cancel-order call was preceded in the same menu operation by a confirmation
\* answered yes or y; after a confirmation answered no or n, answered with
\* 'cancel' or interrupted, the menu operation has issued no exchange call and
\* the session is back at the menu.
C8_ConfirmedBeforeCall ==
    /\ \A i \in 1..Len(last.calls) :
         last.calls[i].fn \in {"futures_create_order", "futures_cancel_order"}
            => confirmed \in Affirmative
    /\ Declined =>
          /\ confirmed \in {Str(sNo), Str(<<"n">>), None}
          /\ last = NoCall
          /\ pc = "menu"
          /\ exitStatus = "running"

C8_Witness ==
    /\ last.op = "cancel_order"
    /\ last.calls # <<>>
    /\ last.calls[1].fn = "futures_cancel_order"
    /\ confirmed = Str(<<"y">>)

C8_WitnessDeclined ==
    /\ Declined
    /\ lastRead.at = "stop_confirm"
    /\ lastRead.ev = Line(<<"n">>)
    /\ pc = "menu"

TypedCancel == lastRead.ev.k = "line" /\ lower(strip(lastRead.ev.s)) = sCancel

\* C9: after 'cancel' (any letter case) has been entered at a prompt (the menu
\* prompt and the symbol prompt of View Open Orders included), the operation
\* has issued no exchange call and the session is at the menu again.
C9_CancelReturnsToMenu ==
    TypedCancel =>
        /\ pc = "menu"
        /\ exitStatus = "running"
        /\ last.calls = <<>>

IsUnset(c) == c.API_KEY = None \/ c.API_SECRET = None

InitFailed == last.op = "__init__" /\ last.raised # "none"

UserQuit ==
    /\ lastRead.at = "menu"
    /\ \/ lastRead.ev.k = "interrupt"
       \/ lastRead.ev.k = "line" /\ lower(strip(lastRead.ev.s)) \in {sCancel, <<"7">>}

\* C10: once startup is over, if API_KEY or API_SECRET is a placeholder or
\* unset, or if the initialization of the adapter failed, the process has
\* exited with status 1 without reading a menu choice; the process exits with
\* status 0 only by a user quit.
C10_StartupExit ==
    /\ (pc # "start" /\ (IsPlaceholder(creds) \/ IsUnset(creds) \/ InitFailed)) =>
          /\ pc = "exited"
          /\ exitStatus = "1"
          /\ lastRead = NothingRead
    /\ exitStatus = "0" => UserQuit

-----------------------------------------------------------------------------
(* Properties of place_market_order and get_account_balance *)

ValidMarketRequest ==
    /\ last.op = "place_market_order"
    /\ IsOneOf(last.args.side, {sBUY, sSELL})
    /\ QuantityInRange(last.args.quantity)

\* the call is as the claim describes, the reduce-only flag left aside
MarketCallShape ==
    /\ Len(last.calls) = 1
    /\ last.calls[1].fn = "futures_create_order"
    /\ last.calls[1].params.symbol = upper(last.args.symbol)
    /\ last.calls[1].params.side = upper(last.args.side)
    /\ last.calls[1].params.type = sMARKET
    /\ last.calls[1].params.quantity = last.args.quantity
    /\ last.calls[1].outcome = "ok" =>
          /\ last.raised = "none"
          /\ last.ret = Dict([orderId |-> nextOrderId - 1,
                              symbol |-> upper(last.args.symbol),
                              side |-> upper(last.args.side),
                              type |-> sMARKET, status |-> "FILLED"])

\* C11: place_market_order with a valid side and a quantity within
\* [MIN_QUANTITY, MAX_QUANTITY] issues exactly one create-order call, with the
\* upper-cased symbol and side, type MARKET, the given quantity and the
\* parameter reduceOnly = true, and on success returns the response of the
\* exchange unchanged.
C11_MarketOrderCall ==
    ValidMarketRequest =>
        /\ MarketCallShape
        /\ "reduceOnly" \in DOMAIN last.calls[1].params
        /\ last.calls[1].params.reduceOnly = TRUE

BalanceFetched ==
    /\ last.op = "get_account_balance"
    /\ last.calls[1].outcome = "ok"

\* positions of the USDT entries in the asset list of an account response
USDTEntries(account) ==
    IF "assets" \in DOMAIN account
    THEN {i \in 1..Len(account.assets) : account.assets[i].asset = sUSDT}
    ELSE {}

\* C12: when the account fetch succeeds, get_account_balance returns
\* availableBalance = the availableBalance of the first USDT entry of the asset
\* list and totalBalance = that availableBalance + the unrealizedProfit of the
\* same entry; with no USDT entry, or no asset list, it returns 0.0 for both
\* and not a failure.
C12_BalanceSnapshot ==
    BalanceFetched =>
        LET account == last.args.account
            hits == USDTEntries(account)
            first == account.assets[CHOOSE i \in hits : \A j \in hits : i <= j]
        IN  /\ last.raised = "none"
            /\ last.ret.t = "dict"
            /\ IF hits = {}
               THEN /\ last.ret.v.available_balance = Num(0)
                    /\ last.ret.v.total_balance = Num(0)
               ELSE /\ last.ret.v.available_balance = float(first.availableBalance).val
                    /\ last.ret.v.total_balance.v =
                          float(first.availableBalance).val.v
                          + float(first.unrealizedProfit).val.v
            /\ (account = [assets |-> <<Asset(sUSDT, <<"0",".","5">>, <<"-","1">>),
                                         Asset(<<"B","N","B">>, <<"7">>, <<"3">>)>>]) =>
                  last.ret = Dict([total_balance |-> Num(0 - 5000),
                                   available_balance |-> Num(5000)])

\* 12.5 available and -2.25 unrealized profit in the first of two USDT entries
C12_Witness ==
    /\ BalanceFetched
    /\ Cardinality(USDTEntries(last.args.account)) = 2
    /\ last.ret = Dict([total_balance |-> Num(102500), available_balance |-> Num(125000)])

C12_WitnessNoUSDT ==
    /\ BalanceFetched
    /\ "assets" \notin DOMAIN last.args.account
    /\ last.ret = Dict([total_balance |-> Num(0), available_balance |-> Num(0)])

-----------------------------------------------------------------------------
(* Properties of the main loop and of the order handlers *)

\* the line read last, stripped as get_user_input strips it
EnteredAt(loc, text) ==
    /\ lastRead.at = loc
    /\ lastRead.ev.k = "line"
    /\ strip(lastRead.ev.s) = text

InterruptDelivered == lastRead.ev.k = "interrupt"

MenuInputOutside1To7 ==
    /\ lastRead.at = "menu"
    /\ lastRead.ev.k = "line"
    /\ ~InList(strip(lastRead.ev.s), MenuOptions)

SessionEnded == pc = "exited" /\ exitStatus = "0"

\* C13: the session has ended exactly when menu choice 7 was selected or an
\* interrupt was delivered; a menu input outside 1-7 leaves the session at the
\* menu prompt with no operation dispatched; after an operation that
\* succeeded, failed, was aborted or raised a non-interrupt exception the
\* session is at the menu and has not terminated.
C13_SessionEndsOnQuitOnly ==
    /\ SessionEnded <=> (EnteredAt("menu", <<"7">>) \/ InterruptDelivered)
    /\ MenuInputOutside1To7 =>
          /\ pc = "menu"
          /\ exitStatus = "running"
    /\ (lastRead.at \notin {"none", "menu"} /\ ~InterruptDelivered) =>
          exitStatus = "running"

\* a place-order handler has just run the adapter operation after an
\* affirmative answer and the adapter returned a result that is not a failure
ConfirmedOrderPlaced ==
    /\ lastRead.at \in {"market_confirm", "limit_confirm", "stop_confirm"}
    /\ confirmed \in Affirmative
    /\ last.op \in PlaceOps
    /\ last.raised = "none"
    /\ ResultTruthy(last.ret)

SuccessReport == <<"Order placed successfully!", "Order ID", "Status">>

\* C14: whenever the adapter returns a non-failure result after a confirmed
\* market, limit or stop-limit order, the handler has reported success with
\* the order ID and the status and has returned to the menu without raising;
\* the pair returned by place_stop_limit_order included.
C14_HandlerReportsSuccess ==
    ConfirmedOrderPlaced =>
        /\ pc = "menu"
        /\ exitStatus = "running"
        /\ report = SuccessReport

====
